---- MODULE Spec2Model ----
(***************************************************************************)
(* Model of the STREUSLE tagger's constraint logic                         *)
(* (streusle_tagger/models/streusle_tagger.py).                            *)
(*                                                                         *)
(* Python strings are modelled as tuples of one-character strings, so      *)
(* that split("-"), startswith, endswith and tuple unpacking of a string   *)
(* are computed the way Python computes them.  A Python dict is a TLA+     *)
(* function whose DOMAIN is the set of keys; a list is a sequence.  The    *)
(* label vocabulary {0: l0, ..., n-1: l(n-1)} is the sequence              *)
(* <<l0, ..., l(n-1)>>: the label with Python index i is element i + 1.    *)
(* A call's outcome is a record whose field raised tells a return from a   *)
(* raised exception.                                                       *)
(***************************************************************************)
EXTENDS Integers, Sequences, FiniteSets, TLC

VARIABLES vocab, pc, self, ret

vars == <<vocab, pc, self, ret>>

(***************************************************************************)
(* String literals of the source.                                          *)
(***************************************************************************)
S_X == <<"X">>
S_INTJ == <<"I", "N", "T", "J">>
S_VERB == <<"V", "E", "R", "B">>
S_ADV == <<"A", "D", "V">>
S_CCONJ == <<"C", "C", "O", "N", "J">>
S_PUNCT == <<"P", "U", "N", "C", "T">>
S_ADP == <<"A", "D", "P">>
S_NOUN == <<"N", "O", "U", "N">>
S_SYM == <<"S", "Y", "M">>
S_ADJ == <<"A", "D", "J">>
S_PROPN == <<"P", "R", "O", "P", "N">>
S_DET == <<"D", "E", "T">>
S_PART == <<"P", "A", "R", "T">>
S_PRON == <<"P", "R", "O", "N">>
S_SCONJ == <<"S", "C", "O", "N", "J">>
S_NUM == <<"N", "U", "M">>
S_AUX == <<"A", "U", "X">>
S_N == <<"N">>
S_INF_P == <<"I", "N", "F", ".", "P">>
S_V == <<"V">>
S_PP == <<"P", "P">>
S_POSS == <<"P", "O", "S", "S">>
S_PRON_POSS == <<"P", "R", "O", "N", ".", "P", "O", "S", "S">>
S_DISC == <<"D", "I", "S", "C">>
S_P == <<"P">>
S_INF == <<"I", "N", "F">>

ALL_UPOS ==
    {S_X, S_INTJ, S_VERB, S_ADV, S_CCONJ, S_PUNCT, S_ADP,
     S_NOUN, S_SYM, S_ADJ, S_PROPN, S_DET, S_PART, S_PRON, S_SCONJ, S_NUM, S_AUX}

ALL_LEXCATS ==
    {S_N, S_INTJ, S_INF_P, S_V, S_AUX, S_PP, S_PUNCT,
     S_POSS, S_X, S_PRON_POSS, S_SYM, S_PRON, S_SCONJ,
     S_NUM, S_DISC, S_ADV, S_CCONJ, S_P, S_ADJ, S_DET, S_INF}

\* The role strings and the two boundary markers.
T_O == <<"O">>
T_B == <<"B">>
T_I_ == <<"I", "_">>
T_It == <<"I", "~">>
T_o == <<"o">>
T_b == <<"b">>
T_i_ == <<"i", "_">>
T_it == <<"i", "~">>
START == <<"S", "T", "A", "R", "T">>
END == <<"E", "N", "D">>

(***************************************************************************)
(* Python string methods.                                                  *)
(***************************************************************************)
RECURSIVE SplitFrom(_, _, _, _)
SplitFrom(s, sep, i, cur) ==
    IF i > Len(s) THEN <<cur>>
    ELSE IF s[i] = sep THEN <<cur>> \o SplitFrom(s, sep, i + 1, <<>>)
    ELSE SplitFrom(s, sep, i + 1, Append(cur, s[i]))

\* s.split(sep) for a one-character separator
split(s, sep) == SplitFrom(s, sep, 1, <<>>)

\* s.startswith(prefix)
startswith(s, prefix) ==
    /\ Len(prefix) <= Len(s)
    /\ SubSeq(s, 1, Len(prefix)) = prefix

\* s.endswith(suffix)
endswith(s, suffix) ==
    /\ Len(suffix) <= Len(s)
    /\ SubSeq(s, Len(s) - Len(suffix) + 1, Len(s)) = suffix

Return(v) == [raised |-> FALSE, value |-> v]

Raise(exc, what, arg) == [raised |-> TRUE, error |-> exc, what |-> what, arg |-> arg]

(***************************************************************************)
(* is_streusle_transition_allowed                                          *)
(***************************************************************************)
VALID_TAGS == {T_O, T_B, T_I_, T_It, T_o, T_b, T_i_, T_it, START, END}

\* variant: weak inside roles may return to O or B
is_streusle_transition_allowed_weak_to_outside(from_tag, to_tag) ==
    IF from_tag \notin VALID_TAGS
    THEN Raise("ValueError", "from_tag", from_tag)
    ELSE IF to_tag \notin VALID_TAGS
    THEN Raise("ValueError", "to_tag", to_tag)
    ELSE IF to_tag = START \/ from_tag = END
    THEN Return(FALSE)
    ELSE IF from_tag = START
    THEN Return(to_tag \in {T_O, T_B})
    ELSE IF to_tag = END
    THEN Return(from_tag \in {T_O, T_I_, T_It})
    ELSE Return(
        \/ from_tag \in {T_B, T_o} /\ to_tag \in {T_o, T_b, T_I_, T_It}
        \/ from_tag \in {T_b} /\ to_tag \in {T_i_, T_it}
        \/ from_tag \in {T_O} /\ to_tag \in {T_O, T_B}
        \/ from_tag \in {T_I_, T_It} /\ to_tag \notin {T_i_, T_it}
        \/ from_tag \in {T_i_, T_it} /\ to_tag \notin {T_O})

\* variant: a tag outside the known ones is treated as not allowed
is_streusle_transition_allowed_unchecked(from_tag, to_tag) ==
    IF to_tag = START \/ from_tag = END
    THEN Return(FALSE)
    ELSE IF from_tag = START
    THEN Return(to_tag \in {T_O, T_B})
    ELSE IF to_tag = END
    THEN Return(from_tag \in {T_O, T_I_, T_It})
    ELSE Return(
        \/ from_tag \in {T_B, T_o} /\ to_tag \in {T_o, T_b, T_I_, T_It}
        \/ from_tag \in {T_b} /\ to_tag \in {T_i_, T_it}
        \/ from_tag \in {T_O} /\ to_tag \in {T_O, T_B}
        \/ from_tag \in {T_I_, T_It} /\ to_tag \notin {T_i_, T_it}
        \/ from_tag \in {T_i_, T_it} /\ to_tag \notin {T_O, T_B})

\* variant: a sequence may end after a weak inside role
is_streusle_transition_allowed_weak_can_end(from_tag, to_tag) ==
    IF from_tag \notin VALID_TAGS
    THEN Raise("ValueError", "from_tag", from_tag)
    ELSE IF to_tag \notin VALID_TAGS
    THEN Raise("ValueError", "to_tag", to_tag)
    ELSE IF to_tag = START \/ from_tag = END
    THEN Return(FALSE)
    ELSE IF from_tag = START
    THEN Return(to_tag \in {T_O, T_B})
    ELSE IF to_tag = END
    THEN Return(from_tag \in {T_O, T_I_, T_It, T_i_, T_it})
    ELSE Return(
        \/ from_tag \in {T_B, T_o} /\ to_tag \in {T_o, T_b, T_I_, T_It}
        \/ from_tag \in {T_b} /\ to_tag \in {T_i_, T_it}
        \/ from_tag \in {T_O} /\ to_tag \in {T_O, T_B}
        \/ from_tag \in {T_I_, T_It} /\ to_tag \notin {T_i_, T_it}
        \/ from_tag \in {T_i_, T_it} /\ to_tag \notin {T_O, T_B})

\* variant: the rule of b is written for B
is_streusle_transition_allowed_b_as_B(from_tag, to_tag) ==
    IF from_tag \notin VALID_TAGS
    THEN Raise("ValueError", "from_tag", from_tag)
    ELSE IF to_tag \notin VALID_TAGS
    THEN Raise("ValueError", "to_tag", to_tag)
    ELSE IF to_tag = START \/ from_tag = END
    THEN Return(FALSE)
    ELSE IF from_tag = START
    THEN Return(to_tag \in {T_O, T_B})
    ELSE IF to_tag = END
    THEN Return(from_tag \in {T_O, T_I_, T_It})
    ELSE Return(
        \/ from_tag \in {T_B, T_o} /\ to_tag \in {T_o, T_b, T_I_, T_It}
        \/ from_tag \in {T_B} /\ to_tag \in {T_i_, T_it}
        \/ from_tag \in {T_O} /\ to_tag \in {T_O, T_B}
        \/ from_tag \in {T_I_, T_It} /\ to_tag \notin {T_i_, T_it}
        \/ from_tag \in {T_i_, T_it} /\ to_tag \notin {T_O, T_B})

is_streusle_transition_allowed(from_tag, to_tag) ==
    IF from_tag \notin VALID_TAGS
    THEN Raise("ValueError", "from_tag", from_tag)
    ELSE IF to_tag \notin VALID_TAGS
    THEN Raise("ValueError", "to_tag", to_tag)
    ELSE IF to_tag = START \/ from_tag = END
    THEN Return(FALSE)
    ELSE IF from_tag = START
    THEN Return(to_tag \in {T_O, T_B})
    ELSE IF to_tag = END
    THEN Return(from_tag \in {T_O, T_I_, T_It})
    ELSE Return(
        \/ from_tag \in {T_B, T_o} /\ to_tag \in {T_o, T_b, T_I_, T_It}
        \/ from_tag \in {T_b} /\ to_tag \in {T_i_, T_it}
        \/ from_tag \in {T_O} /\ to_tag \in {T_O, T_B}
        \/ from_tag \in {T_I_, T_It} /\ to_tag \notin {T_i_, T_it}
        \/ from_tag \in {T_i_, T_it} /\ to_tag \notin {T_O, T_B})

(***************************************************************************)
(* streusle_allowed_transitions                                            *)
(***************************************************************************)
\* variant: the indices of the two markers exchanged
labels_with_boundaries_swapped(labels) ==
    [i \in 1..Len(labels) |-> <<i - 1, labels[i]>>]
        \o << <<Len(labels) + 1, START>>, <<Len(labels), END>> >>

\* list(labels.items()) + [(start_tag, "START"), (end_tag, "END")]
labels_with_boundaries(labels) ==
    [i \in 1..Len(labels) |-> <<i - 1, labels[i]>>]
        \o << <<Len(labels), START>>, <<Len(labels) + 1, END>> >>

\* from_tag / to_tag of a label: the label itself for the literal strings
\* START and END, else the first dash-delimited component
tag_of(label) ==
    IF label \in {START, END} THEN label ELSE split(label, "-")[1]

\* The calls of the two nested loops in the order the loops make them: call
\* k has the from-entry (k - 1) \div N and the to-entry (k - 1) % N.
transition_calls(lwb) ==
    [k \in 1..(Len(lwb) * Len(lwb)) |->
        LET f == ((k - 1) \div Len(lwb)) + 1
            t == ((k - 1) % Len(lwb)) + 1
        IN  [pair |-> <<lwb[f][1], lwb[t][1]>>,
             r |-> is_streusle_transition_allowed(tag_of(lwb[f][2]), tag_of(lwb[t][2]))]]

\* The first call that raises ends the function with its exception;
\* otherwise the list holds the pairs of the calls that returned True, in
\* call order.
streusle_allowed_transitions(labels) ==
    LET calls == transition_calls(labels_with_boundaries(labels))
        raising == {k \in DOMAIN calls : calls[k].r.raised}
        kept == SelectSeq(calls, LAMBDA c : c.r.value)
    IN  IF raising # {}
        THEN calls[CHOOSE k \in raising : \A j \in raising : k <= j].r
        ELSE Return([k \in DOMAIN kept |-> kept[k].pair])

(***************************************************************************)
(* get_upos_allowed_lexcats                                                *)
(***************************************************************************)
KNOWN_PAIRS ==
    {<<S_NOUN, S_N>>, <<S_PROPN, S_N>>, <<S_VERB, S_V>>,
     <<S_ADP, S_P>>, <<S_ADV, S_P>>, <<S_SCONJ, S_P>>,
     <<S_ADP, S_DISC>>, <<S_ADV, S_DISC>>, <<S_SCONJ, S_DISC>>,
     <<S_PART, S_POSS>>}

\* variant: the rule for AUX and V is active
is_allowed_aux_v(upos, lexcat) ==
    IF endswith(lexcat, <<"!", "@">>) THEN TRUE
    ELSE IF upos = lexcat THEN TRUE
    ELSE IF <<upos, lexcat>> \in KNOWN_PAIRS THEN TRUE
    ELSE LET m1 == startswith(lexcat, S_INF) /\ upos = S_SCONJ
             m1b == IF upos = S_AUX /\ lexcat = S_V THEN TRUE ELSE m1
             m2 == IF upos = S_PRON /\ lexcat \in {S_PRON, S_PRON_POSS} THEN TRUE ELSE m1b
             m3 == IF lexcat = S_ADV /\ upos \in {S_ADV, S_PART} THEN TRUE ELSE m2
         IN  m3

\* variant: equal spelling of upos and lexcat is not a rule
is_allowed_no_identity(upos, lexcat) ==
    IF endswith(lexcat, <<"!", "@">>) THEN TRUE
    ELSE IF <<upos, lexcat>> \in KNOWN_PAIRS THEN TRUE
    ELSE LET m1 == startswith(lexcat, S_INF) /\ upos = S_SCONJ
             m2 == IF upos = S_PRON /\ lexcat \in {S_PRON, S_PRON_POSS} THEN TRUE ELSE m1
             m3 == IF lexcat = S_ADV /\ upos \in {S_ADV, S_PART} THEN TRUE ELSE m2
         IN  m3

is_allowed(upos, lexcat) ==
    IF endswith(lexcat, <<"!", "@">>) THEN TRUE
    ELSE IF upos = lexcat THEN TRUE
    ELSE IF <<upos, lexcat>> \in KNOWN_PAIRS THEN TRUE
    ELSE LET m1 == startswith(lexcat, S_INF) /\ upos = S_SCONJ
             m2 == IF upos = S_PRON /\ lexcat \in {S_PRON, S_PRON_POSS} THEN TRUE ELSE m1
             m3 == IF lexcat = S_ADV /\ upos \in {S_ADV, S_PART} THEN TRUE ELSE m2
         IN  m3

\* allowed_combinations: a key exists only for a UPOS that got a lexcat added
get_upos_allowed_lexcats ==
    LET keys == {upos \in ALL_UPOS : \E lexcat \in ALL_LEXCATS : is_allowed(upos, lexcat)}
    IN  [upos \in keys |-> {lexcat \in ALL_LEXCATS : is_allowed(upos, lexcat)}]

(***************************************************************************)
(* StreusleTagger.__init__                                                 *)
(***************************************************************************)
\* variant: the lexcat is taken from the last component of the label
upos_label_mask_entry_last_component(table, upos, label) ==
    IF Len(split(label, "-")) = 1 THEN Return(1)
    ELSE LET label_lexcat == split(label, "-")[Len(split(label, "-"))]
         IN  IF ~startswith(label, <<"O", "-">>) /\ ~startswith(label, <<"o", "-">>)
             THEN Return(1)
             ELSE IF upos \notin DOMAIN table
             THEN Raise("KeyError", "_upos_to_allowed_lexcats", upos)
             ELSE IF label_lexcat \in table[upos] THEN Return(1)
             ELSE Return(0)

\* The value the inner loop of __init__ leaves at upos_label_mask[label_index]
\* (the vector starts as zeros), or the KeyError of the table lookup.
upos_label_mask_entry(table, upos, label) ==
    IF Len(split(label, "-")) = 1 THEN Return(1)
    ELSE LET label_lexcat == split(label, "-")[2]
         IN  IF ~startswith(label, <<"O", "-">>) /\ ~startswith(label, <<"o", "-">>)
             THEN Return(1)
             ELSE IF upos \notin DOMAIN table
             THEN Raise("KeyError", "_upos_to_allowed_lexcats", upos)
             ELSE IF label_lexcat \in table[upos] THEN Return(1)
             ELSE Return(0)

\* The UPOS tags whose mask vector cannot be built because a lookup raises
mask_key_errors(table, labels) ==
    {upos \in ALL_UPOS :
        \E i \in 1..Len(labels) : upos_label_mask_entry(table, upos, labels[i]).raised}

\* self._upos_to_label_mask
upos_to_label_mask(table, labels) ==
    [upos \in ALL_UPOS |->
        [i \in 1..Len(labels) |-> upos_label_mask_entry(table, upos, labels[i]).value]]

Construct(use_upos_constraints) ==
    /\ pc = "start"
    /\ LET labels == vocab
           constraints == streusle_allowed_transitions(labels)
           base == [a \in {"num_tags", "use_upos_constraints", "constraints"} |->
                       CASE a = "num_tags" -> Len(labels)
                         [] a = "use_upos_constraints" -> use_upos_constraints
                         [] a = "constraints" -> constraints.value]
           table == get_upos_allowed_lexcats
       IN  IF constraints.raised
           THEN /\ pc' = "failed"
                /\ ret' = [op |-> "__init__", out |-> constraints]
                /\ self' = self
           ELSE IF ~use_upos_constraints
           THEN /\ pc' = "constructed"
                /\ ret' = [op |-> "__init__", out |-> Return("None")]
                /\ self' = base
           ELSE IF mask_key_errors(table, labels) # {}
           THEN /\ pc' = "failed"
                /\ \E upos \in mask_key_errors(table, labels) :
                      ret' = [op |-> "__init__",
                              out |-> Raise("KeyError", "_upos_to_allowed_lexcats", upos)]
                /\ self' = self
           ELSE /\ pc' = "constructed"
                /\ ret' = [op |-> "__init__", out |-> Return("None")]
                /\ self' = [a \in DOMAIN base \cup {"_upos_to_allowed_lexcats", "_upos_to_label_mask"} |->
                               CASE a = "_upos_to_allowed_lexcats" -> table
                                 [] a = "_upos_to_label_mask" -> upos_to_label_mask(table, labels)
                                 [] OTHER -> base[a]]
    /\ UNCHANGED vocab

(***************************************************************************)
(* StreusleTagger.get_upos_constraint_mask                                 *)
(***************************************************************************)
\* 32-bit stand-in for the float -1e32 (below every logit of the model)
NEG_1E32 == -1000000000

\* for ..., (timestep_upos_tag, timestep_lemma) in enumerate(example_upos_tags):
\* the element is a str, which unpacks into two names only if it has exactly
\* two characters.
unpack2(element) ==
    IF Len(element) = 2
    THEN Return(<< <<element[1]>>, <<element[2]>> >>)
    ELSE Raise("ValueError", "unpack", element)

Min(a, b) == IF a <= b THEN a ELSE b

RECURSIVE MaxLenOf(_)
MaxLenOf(batch) ==
    IF batch = <<>> THEN 0
    ELSE LET m == MaxLenOf(Tail(batch))
         IN  IF Len(Head(batch)) >= m THEN Len(Head(batch)) ELSE m

\* The two nested loops, at example e and timestep t.
RECURSIVE mask_loop(_, _, _, _, _, _)
mask_loop(this, batch_upos_tags, n_examples, e, t, mask) ==
    IF e > n_examples THEN Return(mask)
    ELSE IF t > Len(batch_upos_tags[e])
    THEN mask_loop(this, batch_upos_tags, n_examples, e + 1, 1, mask)
    ELSE LET u == unpack2(batch_upos_tags[e][t])
         IN  IF u.raised THEN u
             ELSE IF "_upos_to_label_mask" \notin DOMAIN this
             THEN Raise("AttributeError", "self", "_upos_to_label_mask")
             ELSE IF u.value[1] \notin DOMAIN this["_upos_to_label_mask"]
             THEN Raise("KeyError", "_upos_to_label_mask", u.value[1])
             ELSE mask_loop(this, batch_upos_tags, n_examples, e, t + 1,
                            [mask EXCEPT ![e][t] = this["_upos_to_label_mask"][u.value[1]]])

get_upos_constraint_mask(this, batch_upos_tags, batch_lemmas) ==
    IF batch_upos_tags = <<>>
    THEN Raise("ValueError", "max", batch_upos_tags)
    ELSE LET ones == [e \in 1..Len(batch_upos_tags) |->
                         [t \in 1..MaxLenOf(batch_upos_tags) |->
                             [k \in 1..this["num_tags"] |-> NEG_1E32]]]
         IN  mask_loop(this, batch_upos_tags,
                       Min(Len(batch_upos_tags), Len(batch_lemmas)), 1, 1, ones)

(***************************************************************************)
(* StreusleTagger.forward                                                  *)
(***************************************************************************)
\* allennlp.nn.util.replace_masked_values: tensor.masked_fill(1 - mask, v)
replace_masked_values(tensor, mask, replace_with) ==
    [e \in DOMAIN tensor |->
        [t \in DOMAIN tensor[e] |->
            [k \in DOMAIN tensor[e][t] |->
                IF 1 - mask[e][t][k] # 0 THEN replace_with ELSE tensor[e][t][k]]]]

\* self.<name> on a torch Module: AttributeError when nothing assigned it
has_attr(this, name) == name \in DOMAIN this

forward(this, logits, has_tags, metadata) ==
    IF this["use_upos_constraints"] /\ ~has_attr(this, "use_lemma_constraints")
    THEN Raise("AttributeError", "self", "use_lemma_constraints")
    ELSE LET constrain == this["use_upos_constraints"] /\ this["use_lemma_constraints"]
             batch_upos_tags == [i \in DOMAIN metadata |-> metadata[i].upos_tags]
             batch_lemmas == [i \in DOMAIN metadata |-> metadata[i].lemmas]
             m == get_upos_constraint_mask(this, batch_upos_tags, batch_lemmas)
             constrained_logits ==
                 IF constrain THEN replace_masked_values(logits, m.value, NEG_1E32) ELSE logits
             keys == {"mask", "tags", "tokens"}
                         \cup (IF this["use_upos_constraints"]
                               THEN {"constrained_logits", "upos_tags"} ELSE {})
                         \cup (IF has_tags THEN {"loss"} ELSE {})
         IN  IF constrain /\ m.raised THEN m
             ELSE IF this["use_upos_constraints"] /\ ~constrain
             THEN Raise("NameError", "local", "batch_upos_tags")
             ELSE Return([key \in keys |->
                     CASE key = "constrained_logits" -> constrained_logits
                       [] key = "upos_tags" -> batch_upos_tags
                       [] key = "tags" -> [viterbi_tags |-> constrained_logits]
                       [] key = "tokens" -> [i \in DOMAIN metadata |-> metadata[i].tokens]
                       [] OTHER -> key])

(***************************************************************************)
(* Inputs                                                                  *)
(***************************************************************************)
MaxLabels == 4
MaxBatch == 2
MaxSeqLen == 2

L_O == <<"O">>
L_O_N_person == <<"O", "-", "N", "-", "n", ".", "p", "e", "r", "s", "o", "n">>
L_O_V_cognition ==
    <<"O", "-", "V", "-", "v", ".", "c", "o", "g", "n", "i", "t", "i", "o", "n">>
L_B == <<"B">>
L_o_PRON_POSS == <<"o", "-", "P", "R", "O", "N", ".", "P", "O", "S", "S">>
L_Q_N == <<"Q", "-", "N">>
L_B_N_person == <<"B", "-", "N", "-", "n", ".", "p", "e", "r", "s", "o", "n">>
L_It_V_cognition ==
    <<"I", "~", "-", "V", "-", "v", ".", "c", "o", "g", "n", "i", "t", "i", "o", "n">>
L_i__P == <<"i", "_", "-", "P">>
L_START_N == <<"S", "T", "A", "R", "T", "-", "N">>
L_OO == <<"O", "O">>

\* the elements of pool at the indices of S, in pool order
RECURSIVE Pick(_, _)
Pick(pool, S) ==
    IF S = {} THEN <<>>
    ELSE LET m == CHOOSE x \in S : \A y \in S : x <= y
         IN  <<pool[m]>> \o Pick(pool, S \ {m})

SubSequences(pool, n) ==
    {Pick(pool, S) : S \in {T \in SUBSET (1..Len(pool)) : Cardinality(T) <= n}}

\* label vocabularies a tagger is constructed with
ModelPool ==
    <<L_O, L_O_N_person, L_O_V_cognition, L_B, L_o_PRON_POSS, L_Q_N, L_B_N_person>>

ModelAlphabets == SubSequences(ModelPool, MaxLabels)

\* label vocabularies of the taggers whose methods are called
CallPool == <<L_O, L_O_N_person, L_O_V_cognition, L_B>>

CallAlphabets == SubSequences(CallPool, MaxLabels)

\* label vocabularies handed to streusle_allowed_transitions: every choice
\* of role-only labels, and short vocabularies of mixed labels
RolePool == <<T_O, T_o, T_B, T_b, T_I_, T_i_, T_It, T_it>>

MixedPool == <<L_O_V_cognition, L_B_N_person, L_START_N, L_It_V_cognition,
               L_i__P, L_Q_N, L_O, L_OO>>

TransitionAlphabets ==
    SubSequences(RolePool, Len(RolePool)) \cup SubSequences(MixedPool, MaxLabels - 1)

TagInputs == VALID_TAGS \cup {<<"Q">>, <<"O", "O">>}

\* UPOS strings of the batches: a tag of ALL_UPOS and a string outside it
S_XY == <<"X", "Y">>

TokenPool == {S_NOUN, S_XY}

Lemmas == {<<"b", "e">>, <<"v", "e", "r", "s", "u", "s">>}

LogitSeeds == {-3, 5}

SeqsUpTo(S, n) == UNION {[1..k -> S] : k \in 0..n}

Batches == SeqsUpTo(SeqsUpTo(TokenPool, MaxSeqLen), MaxBatch)

LemmasFor(batch, lemma) == [i \in DOMAIN batch |-> [j \in DOMAIN batch[i] |-> lemma]]

LogitsFor(this, batch, seed) ==
    [e \in DOMAIN batch |->
        [t \in 1..MaxLenOf(batch) |-> [k \in 1..this["num_tags"] |-> seed + k]]]

MetadataFor(batch, lemma) ==
    [i \in DOMAIN batch |->
        [tokens |-> LemmasFor(batch, lemma)[i],
         upos_tags |-> batch[i],
         lemmas |-> LemmasFor(batch, lemma)[i]]]

(***************************************************************************)
(* Specifications                                                          *)
(***************************************************************************)
NoCall == [op |-> "none", out |-> Return("None")]

\* pc is the position of the caller: "start", then "constructed" or
\* "failed" after __init__, then "done" after the call under study.  The
\* methods and functions only read their arguments and self, so a further
\* call from "done" would repeat an outcome that a first call already shows.
\* A tagger about to be constructed over a label vocabulary.
Init ==
    /\ vocab \in CallAlphabets
    /\ pc = "start"
    /\ self = <<>>
    /\ ret = NoCall

CallGetUposConstraintMask ==
    /\ pc = "constructed"
    /\ \E batch \in Batches, lemma \in Lemmas :
          ret' = [op |-> "get_upos_constraint_mask",
                  batch_upos_tags |-> batch,
                  out |-> get_upos_constraint_mask(self, batch, LemmasFor(batch, lemma))]
    /\ pc' = "done"
    /\ UNCHANGED <<vocab, self>>

CallForward ==
    /\ pc = "constructed"
    /\ \E batch \in Batches \ {<<>>}, lemma \in Lemmas, seed \in LogitSeeds, has_tags \in BOOLEAN :
          ret' = [op |-> "forward",
                  batch_upos_tags |-> batch,
                  logits |-> LogitsFor(self, batch, seed),
                  out |-> forward(self, LogitsFor(self, batch, seed), has_tags,
                                  MetadataFor(batch, lemma))]
    /\ pc' = "done"
    /\ UNCHANGED <<vocab, self>>

Next ==
    \/ \E use_upos_constraints \in BOOLEAN : Construct(use_upos_constraints)
    \/ CallGetUposConstraintMask
    \/ CallForward

Spec == Init /\ [][Next]_vars

\* The constructor alone, over the larger family of label vocabularies.
InitConstruct ==
    /\ vocab \in ModelAlphabets
    /\ pc = "start"
    /\ self = <<>>
    /\ ret = NoCall

NextConstruct == \E use_upos_constraints \in BOOLEAN : Construct(use_upos_constraints)

SpecConstruct == InitConstruct /\ [][NextConstruct]_vars

\* The module-level functions, called directly.
InitFunctions ==
    /\ vocab \in TransitionAlphabets
    /\ pc = "start"
    /\ self = <<>>
    /\ ret = NoCall

CallStreusleAllowedTransitions ==
    /\ pc = "start"
    /\ ret' = [op |-> "streusle_allowed_transitions",
               out |-> streusle_allowed_transitions(vocab)]
    /\ pc' = "done"
    /\ UNCHANGED <<vocab, self>>

CallIsStreusleTransitionAllowed ==
    /\ pc = "start"
    /\ \E from_tag \in TagInputs, to_tag \in TagInputs :
          ret' = [op |-> "is_streusle_transition_allowed",
                  from_tag |-> from_tag, to_tag |-> to_tag,
                  out |-> is_streusle_transition_allowed(from_tag, to_tag)]
    /\ pc' = "done"
    /\ UNCHANGED <<vocab, self>>

CallGetUposAllowedLexcats ==
    /\ pc = "start"
    /\ ret' = [op |-> "get_upos_allowed_lexcats", out |-> Return(get_upos_allowed_lexcats)]
    /\ pc' = "done"
    /\ UNCHANGED <<vocab, self>>

NextFunctions ==
    \/ CallStreusleAllowedTransitions
    \/ CallIsStreusleTransitionAllowed
    \/ CallGetUposAllowedLexcats

SpecFunctions == InitFunctions /\ [][NextFunctions]_vars

(***************************************************************************)
(* Properties                                                              *)
(***************************************************************************)
Range(f) == {f[x] : x \in DOMAIN f}

\* the eight roles of the tagging scheme
Roles == {T_O, T_o, T_B, T_b, T_I_, T_i_, T_It, T_it}

\* label is the role r alone, or r followed by a dash and more
HasRole(label, r) == label = r \/ startswith(label, r \o <<"-">>)

\* the Python indices of the labels of the vocabulary that carry a role of R
IndicesWithRole(R) == {i - 1 : i \in {j \in 1..Len(vocab) : \E r \in R : HasRole(vocab[j], r)}}

AllLabelsHaveRoles == \A i \in 1..Len(vocab) : \E r \in Roles : HasRole(vocab[i], r)

TransitionCallDone == pc = "done" /\ ret.op = "is_streusle_transition_allowed"

TransitionsCallDone == pc = "done" /\ ret.op = "streusle_allowed_transitions"

\* The transition table of the eight roles, row by row.
C1_AllowedAfter ==
    [from_tag \in Roles |->
        CASE from_tag = T_B -> {T_o, T_b, T_I_, T_It}
          [] from_tag = T_o -> {T_o, T_b, T_I_, T_It}
          [] from_tag = T_b -> {T_i_, T_it}
          [] from_tag = T_O -> {T_O, T_B}
          [] from_tag = T_I_ -> {T_O, T_o, T_B, T_b, T_I_, T_It}
          [] from_tag = T_It -> {T_O, T_o, T_B, T_b, T_I_, T_It}
          [] from_tag = T_i_ -> {T_o, T_b, T_I_, T_i_, T_It, T_it}
          [] from_tag = T_it -> {T_o, T_b, T_I_, T_i_, T_It, T_it}]

C1_Rejected ==
    {<<T_B, T_O>>, <<T_b, T_O>>, <<T_b, T_B>>, <<T_I_, T_i_>>, <<T_I_, T_it>>,
     <<T_i_, T_O>>, <<T_i_, T_B>>}

C1_Accepted ==
    {<<T_B, T_o>>, <<T_B, T_b>>, <<T_B, T_I_>>, <<T_B, T_It>>, <<T_b, T_i_>>,
     <<T_b, T_it>>, <<T_I_, T_O>>, <<T_I_, T_B>>, <<T_i_, T_I_>>}

\* C1: for every ordered pair of the eight roles,
\* is_streusle_transition_allowed returns true exactly for the pairs of the
\* role table (B, o -> o, b, I_, I~; b -> i_, i~; O -> O, B; I_, I~ -> all
\* but i_, i~; i_, i~ -> all but O, B); the seven listed pairs are rejected
\* and the nine listed pairs are accepted.
C1_RoleTransitionTable ==
    (TransitionCallDone /\ ret.from_tag \in Roles /\ ret.to_tag \in Roles) =>
        /\ ~ret.out.raised
        /\ ret.out.value <=> (ret.to_tag \in C1_AllowedAfter[ret.from_tag])
        /\ <<ret.from_tag, ret.to_tag>> \in C1_Rejected => ~ret.out.value
        /\ <<ret.from_tag, ret.to_tag>> \in C1_Accepted => ret.out.value

C1_Witness ==
    /\ TransitionCallDone
    /\ ret.from_tag = T_i_
    /\ ret.to_tag = T_B
    /\ ~ret.out.raised
    /\ ~ret.out.value

\* C2: for a vocabulary of n labels that all carry one of the eight roles,
\* the returned pairs that involve START (index n) or END (index n + 1) are
\* exactly (START, l) for the labels l of role O or B and (l, END) for the
\* labels l of role O, I_ or I~.
C2_BoundaryTransitions ==
    (TransitionsCallDone /\ AllLabelsHaveRoles) =>
        /\ ~ret.out.raised
        /\ LET n == Len(vocab)
               involved == {p \in Range(ret.out.value) :
                               p[1] \in {n, n + 1} \/ p[2] \in {n, n + 1}}
           IN  involved = {<<n, l>> : l \in IndicesWithRole({T_O, T_B})}
                              \cup {<<l, n + 1>> : l \in IndicesWithRole({T_O, T_I_, T_It})}

C2_Witness ==
    /\ TransitionsCallDone
    /\ AllLabelsHaveRoles
    /\ ~ret.out.raised
    /\ vocab = <<L_B_N_person, L_It_V_cognition, L_i__P>>
    /\ <<3, 0>> \in Range(ret.out.value)
    /\ <<1, 4>> \in Range(ret.out.value)

\* the tagger was constructed with use_upos_constraints = True
MaskBuilt == pc \in {"constructed", "done"} /\ "_upos_to_label_mask" \in DOMAIN self

HasDash(label) == "-" \in Range(label)

StartsWithOutside(label) == Len(label) >= 2 /\ label[1] \in {"O", "o"} /\ label[2] = "-"

\* the second dash-delimited component of the dashed labels of the vocabularies
C3_Lexcat(label) ==
    CASE label = L_O_N_person -> S_N
      [] label = L_O_V_cognition -> S_V
      [] label = L_o_PRON_POSS -> S_PRON_POSS
      [] label = L_Q_N -> S_N
      [] label = L_B_N_person -> S_N

\* C3: in the per-UPOS label mask built by the constructor, for every UPOS
\* of ALL_UPOS and every label, the entry is 1 if the label has a single
\* component, or does not start with "O-" or "o-", or its second component
\* is in the table entry of the UPOS, and 0 otherwise; for NOUN and the
\* labels O, O-N-n.person, O-V-v.cognition, B the vector is 1, 1, 0, 1.
C3_UposLabelMask ==
    MaskBuilt =>
        /\ \A upos \in ALL_UPOS : \A i \in 1..Len(vocab) :
              self["_upos_to_label_mask"][upos][i] =
                  IF \/ ~HasDash(vocab[i])
                     \/ ~StartsWithOutside(vocab[i])
                     \/ /\ upos \in DOMAIN self["_upos_to_allowed_lexcats"]
                        /\ C3_Lexcat(vocab[i]) \in self["_upos_to_allowed_lexcats"][upos]
                  THEN 1 ELSE 0
        /\ vocab = <<L_O, L_O_N_person, L_O_V_cognition, L_B>> =>
              self["_upos_to_label_mask"][S_NOUN] = <<1, 1, 0, 1>>

C3_Witness ==
    /\ MaskBuilt
    /\ vocab = <<L_O, L_O_N_person, L_O_V_cognition, L_B>>
    /\ self["_upos_to_label_mask"][S_NOUN] = <<1, 1, 0, 1>>
    /\ self["_upos_to_label_mask"][S_VERB] = <<1, 0, 1, 1>>

\* The compatible (upos, lexcat) pairs: the twelve names common to both
\* vocabularies, the ten listed pairs, SCONJ with the two lexcats that start
\* with INF, PRON with PRON.POSS, and PART with ADV.  No lexcat of
\* ALL_LEXCATS ends with "!@".
C4_Compatible ==
    {<<S_X, S_X>>, <<S_INTJ, S_INTJ>>, <<S_AUX, S_AUX>>, <<S_PUNCT, S_PUNCT>>,
     <<S_SYM, S_SYM>>, <<S_PRON, S_PRON>>, <<S_SCONJ, S_SCONJ>>, <<S_NUM, S_NUM>>,
     <<S_ADV, S_ADV>>, <<S_CCONJ, S_CCONJ>>, <<S_ADJ, S_ADJ>>, <<S_DET, S_DET>>,
     <<S_NOUN, S_N>>, <<S_PROPN, S_N>>, <<S_VERB, S_V>>, <<S_ADP, S_P>>,
     <<S_ADV, S_P>>, <<S_SCONJ, S_P>>, <<S_ADP, S_DISC>>, <<S_ADV, S_DISC>>,
     <<S_SCONJ, S_DISC>>, <<S_PART, S_POSS>>,
     <<S_SCONJ, S_INF>>, <<S_SCONJ, S_INF_P>>,
     <<S_PRON, S_PRON_POSS>>,
     <<S_PART, S_ADV>>}

LexcatsCallDone == pc = "done" /\ ret.op = "get_upos_allowed_lexcats"

InTable(table, upos, lexcat) == upos \in DOMAIN table /\ lexcat \in table[upos]

\* C4: for every (upos, lexcat) of ALL_UPOS x ALL_LEXCATS, lexcat is in the
\* set get_upos_allowed_lexcats returns for upos exactly when the pair is
\* compatible; (PRON, PRON.POSS) is allowed, and (PRON, N), (AUX, V),
\* (ADP, CCONJ), (PART, INF) and (PART, INF.P) are not.
C4_AllowedLexcats ==
    LexcatsCallDone =>
        /\ ~ret.out.raised
        /\ \A upos \in ALL_UPOS : \A lexcat \in ALL_LEXCATS :
              InTable(ret.out.value, upos, lexcat) <=> <<upos, lexcat>> \in C4_Compatible
        /\ InTable(ret.out.value, S_PRON, S_PRON_POSS)
        /\ ~InTable(ret.out.value, S_PRON, S_N)
        /\ ~InTable(ret.out.value, S_AUX, S_V)
        /\ ~InTable(ret.out.value, S_ADP, S_CCONJ)
        /\ ~InTable(ret.out.value, S_PART, S_INF)
        /\ ~InTable(ret.out.value, S_PART, S_INF_P)

C4_Witness ==
    /\ LexcatsCallDone
    /\ ~ret.out.raised
    /\ ret.out.value[S_SCONJ] = {S_SCONJ, S_P, S_DISC, S_INF, S_INF_P}
    /\ ret.out.value[S_PART] = {S_POSS, S_ADV}

\* C5: the table the constructor stores has an entry for each of the 17 tags
\* of ALL_UPOS, every entry is a non-empty set of lexcats of ALL_LEXCATS, and
\* no lookup of a UPOS of ALL_UPOS fails while the masks are built.
C5_TableTotal ==
    /\ Cardinality(ALL_UPOS) = 17
    /\ MaskBuilt =>
          /\ DOMAIN self["_upos_to_allowed_lexcats"] = ALL_UPOS
          /\ \A upos \in ALL_UPOS :
                /\ self["_upos_to_allowed_lexcats"][upos] # {}
                /\ self["_upos_to_allowed_lexcats"][upos] \subseteq ALL_LEXCATS
    /\ pc = "failed" => ret.out.error # "KeyError"

C5_Witness ==
    /\ MaskBuilt
    /\ L_O_V_cognition \in Range(vocab)
    /\ L_o_PRON_POSS \in Range(vocab)
    /\ DOMAIN self["_upos_to_allowed_lexcats"] = ALL_UPOS

\* the first dash-delimited component of label is one of R
FirstComponentIn(label, R) == \E r \in R : HasRole(label, r)

\* the call raised a ValueError that names a side and the first component
\* of the first label of the vocabulary that satisfies Bad, the side being
\* the from side exactly when that label is the first label
RaisedForFirst(Bad(_)) ==
    /\ ret.out.raised
    /\ "value" \notin DOMAIN ret.out
    /\ ret.out.error = "ValueError"
    /\ ret.out.what \in {"from_tag", "to_tag"}
    /\ "-" \notin Range(ret.out.arg)
    /\ \E i \in 1..Len(vocab) :
          /\ Bad(vocab[i])
          /\ \A j \in 1..(i - 1) : ~Bad(vocab[j])
          /\ HasRole(vocab[i], ret.out.arg)
          /\ ret.out.what = "from_tag" <=> i = 1

C6_NotARole(label) == ~FirstComponentIn(label, Roles) /\ label \notin {START, END}

C6_NotATag(label) == ~FirstComponentIn(label, Roles \cup {START, END})

\* C6 as claimed: if some label's first component is not one of the eight
\* roles (and the label is not literally START or END), the call raises an
\* error naming the offending role and its side, and returns no list.
C6_Original ==
    (TransitionsCallDone /\ \E i \in 1..Len(vocab) : C6_NotARole(vocab[i])) =>
        RaisedForFirst(C6_NotARole)

\* C6 amended: if some label's first component is none of the eight roles
\* nor START nor END, the call raises a ValueError naming that component of
\* the first such label and its side, and returns no list.
C6_InvalidTagRaises ==
    (TransitionsCallDone /\ \E i \in 1..Len(vocab) : C6_NotATag(vocab[i])) =>
        RaisedForFirst(C6_NotATag)

C6_Witness ==
    /\ TransitionsCallDone
    /\ vocab = <<L_O_V_cognition, L_START_N, L_Q_N>>
    /\ ret.out.raised
    /\ ret.out.what = "to_tag"
    /\ ret.out.arg = <<"Q">>

\* the indices reachable from those of S along the pairs of E
RECURSIVE ReachFrom(_, _)
ReachFrom(S, E) ==
    LET N == S \cup {p[2] : p \in {q \in E : q[1] \in S}}
    IN  IF N = S THEN S ELSE ReachFrom(N, E)

Reverse(E) == {<<p[2], p[1]>> : p \in E}

\* every label of the vocabulary is reachable from START and reaches END
\* along the returned transitions
AllLabelsLive ==
    LET n == Len(vocab)
        E == Range(ret.out.value)
    IN  \A l \in 0..(n - 1) :
            /\ l \in ReachFrom({n}, E)
            /\ l \in ReachFrom({n + 1}, Reverse(E))

HasLabelOf(R) == IndicesWithRole(R) # {}

\* the vocabulary has the roles a unit needs to be opened and closed
C7_RolesClosed ==
    /\ HasLabelOf(Roles \ {T_O}) => HasLabelOf({T_B}) /\ HasLabelOf({T_I_, T_It})
    /\ HasLabelOf({T_b, T_i_, T_it}) => HasLabelOf({T_b}) /\ HasLabelOf({T_i_, T_it})

\* C7 as claimed: for a label vocabulary, every label is reachable from
\* START and can reach END along the returned transitions.
C7_Original ==
    (TransitionsCallDone /\ AllLabelsHaveRoles /\ ~ret.out.raised) => AllLabelsLive

\* C7 amended: for a vocabulary of eight-role labels, every label is
\* reachable from START and can reach END exactly when (a) a label of a role
\* other than O comes with a label of role B and one of role I_ or I~, and
\* (b) a label of role b, i_ or i~ comes with a label of role b and one of
\* role i_ or i~.
C7_LiveIffRolesClosed ==
    (TransitionsCallDone /\ AllLabelsHaveRoles) =>
        /\ ~ret.out.raised
        /\ AllLabelsLive <=> C7_RolesClosed

C7_Witness ==
    /\ TransitionsCallDone
    /\ vocab = RolePool
    /\ ~ret.out.raised
    /\ C7_RolesClosed
    /\ AllLabelsLive

MaskCallDone == pc = "done" /\ ret.op = "get_upos_constraint_mask"

ForwardCallDone == pc = "done" /\ ret.op = "forward"

\* a non-empty batch whose UPOS tags are all tags of ALL_UPOS
BatchOverAllUpos(batch) ==
    /\ batch # <<>>
    /\ \A e \in DOMAIN batch : \A t \in DOMAIN batch[e] : batch[e][t] \in ALL_UPOS

LongestIn(batch) ==
    CHOOSE m \in {Len(batch[e]) : e \in DOMAIN batch} :
        \A e \in DOMAIN batch : Len(batch[e]) <= m

\* C8: for a batch of UPOS sequences over ALL_UPOS the method returns a
\* structure of shape (batch size, longest sequence, number of labels) whose
\* row at a real token position is the per-UPOS vector of that token's UPOS
\* and whose row at a padding position keeps the initial value.
C8_MaskRowsFollowUpos ==
    (MaskCallDone /\ MaskBuilt /\ BatchOverAllUpos(ret.batch_upos_tags)) =>
        /\ ~ret.out.raised
        /\ Len(ret.out.value) = Len(ret.batch_upos_tags)
        /\ \A e \in DOMAIN ret.batch_upos_tags :
              /\ Len(ret.out.value[e]) = LongestIn(ret.batch_upos_tags)
              /\ \A t \in 1..LongestIn(ret.batch_upos_tags) :
                    ret.out.value[e][t] =
                        IF t <= Len(ret.batch_upos_tags[e])
                        THEN self["_upos_to_label_mask"][ret.batch_upos_tags[e][t]]
                        ELSE [k \in 1..Len(vocab) |-> NEG_1E32]

\* C9: for a label vocabulary and a batch of UPOS sequences over ALL_UPOS,
\* the returned mask permits at least one label at every real token
\* position.
C9_NoFullyDisallowedRow ==
    (MaskCallDone /\ MaskBuilt /\ vocab # <<>> /\ BatchOverAllUpos(ret.batch_upos_tags)) =>
        /\ ~ret.out.raised
        /\ \A e \in DOMAIN ret.batch_upos_tags : \A t \in DOMAIN ret.batch_upos_tags[e] :
              \E k \in 1..Len(vocab) : ret.out.value[e][t][k] = 1

\* C10: on a tagger constructed with use_upos_constraints = True, forward
\* completes, hands the decoder the logits in which every label the mask
\* disallows at a real token position is replaced by -1e32 and every other
\* logit is unchanged, and returns these logits and the batch UPOS tags.
C10_ForwardConstrainsLogits ==
    (ForwardCallDone /\ MaskBuilt /\ BatchOverAllUpos(ret.batch_upos_tags)) =>
        /\ ~ret.out.raised
        /\ {"constrained_logits", "upos_tags"} \subseteq DOMAIN ret.out.value
        /\ ret.out.value["upos_tags"] = ret.batch_upos_tags
        /\ ret.out.value["tags"].viterbi_tags = ret.out.value["constrained_logits"]
        /\ \A e \in DOMAIN ret.batch_upos_tags : \A t \in DOMAIN ret.batch_upos_tags[e] :
              \A k \in 1..Len(vocab) :
                  ret.out.value["constrained_logits"][e][t][k] =
                      IF self["_upos_to_label_mask"][ret.batch_upos_tags[e][t]][k] = 1
                      THEN ret.logits[e][t][k]
                      ELSE NEG_1E32

\* the UPOS strings of the batch that are not tags of ALL_UPOS
UnknownUposIn(batch) ==
    {u \in UNION {Range(batch[e]) : e \in DOMAIN batch} : u \notin ALL_UPOS}

\* C11: when a sequence handed to get_upos_constraint_mask holds a UPOS
\* string outside ALL_UPOS, the call ends with an error of the mask lookup
\* that reports that string, and returns no mask.
C11_UnknownUposRaises ==
    (MaskCallDone /\ MaskBuilt /\ UnknownUposIn(ret.batch_upos_tags) # {}) =>
        /\ ret.out.raised
        /\ ret.out.what = "_upos_to_label_mask"
        /\ ret.out.arg \in UnknownUposIn(ret.batch_upos_tags)

(***************************************************************************)
(* Role sequences accepted by is_streusle_transition_allowed               *)
(***************************************************************************)
MaxRoles == 7

\* A sequence of tags that starts at START; `self` and the vocabulary of the
\* eight role labels play no part in it.
InitSequences ==
    /\ vocab = RolePool
    /\ pc = "decoding"
    /\ self = <<>>
    /\ ret = [op |-> "sequence", roles |-> <<START>>]

\* Append a tag that is_streusle_transition_allowed accepts after the last
\* one; the sequence is complete once END is appended.
Extend ==
    /\ pc = "decoding"
    /\ \E to_tag \in VALID_TAGS :
          /\ to_tag = END \/ Len(ret.roles) <= MaxRoles
          /\ LET r == is_streusle_transition_allowed(ret.roles[Len(ret.roles)], to_tag)
             IN  ~r.raised /\ r.value
          /\ ret' = [ret EXCEPT !.roles = Append(@, to_tag)]
          /\ pc' = IF to_tag = END THEN "done" ELSE "decoding"
    /\ UNCHANGED <<vocab, self>>

NextSequences == Extend

SpecSequences == InitSequences /\ [][NextSequences]_vars

Lowercase == {T_o, T_b, T_i_, T_it}

SequenceComplete == pc = "done" /\ ret.op = "sequence"

\* C12: in every complete sequence START, r1, ..., rn, END whose consecutive
\* pairs are all accepted, (a) every B is followed later by an I_ or I~ with
\* no O, B or END in between; (b) every lowercase role lies in a run of
\* lowercase roles that directly follows a B, I_ or I~ and is directly
\* followed by an I_ or I~; (c) every i_ or i~ directly follows b, i_ or i~
\* and every b is directly followed by i_ or i~.
C12_UnitsWellNested ==
    SequenceComplete =>
        LET q == ret.roles
        IN  \A k \in 1..Len(q) :
                /\ q[k] = T_B =>
                      \E m \in (k + 1)..Len(q) :
                          /\ q[m] \in {T_I_, T_It}
                          /\ \A j \in (k + 1)..(m - 1) : q[j] \notin {T_O, T_B, END}
                /\ q[k] \in Lowercase =>
                      /\ \E j \in 1..(k - 1) :
                            /\ q[j] \in {T_B, T_I_, T_It}
                            /\ \A i \in (j + 1)..(k - 1) : q[i] \in Lowercase
                      /\ \E m \in (k + 1)..Len(q) :
                            /\ q[m] \in {T_I_, T_It}
                            /\ \A i \in (k + 1)..(m - 1) : q[i] \in Lowercase
                /\ q[k] \in {T_i_, T_it} => k > 1 /\ q[k - 1] \in {T_b, T_i_, T_it}
                /\ q[k] = T_b => k < Len(q) /\ q[k + 1] \in {T_i_, T_it}

C12_Witness ==
    /\ SequenceComplete
    /\ ret.roles = <<START, T_B, T_b, T_i_, T_o, T_It, END>>

====
